---- MODULE Spec2Model ----
(***************************************************************************)
(* xdg-screensaver-shim: the suspend session (operationSuspend,            *)
(* operationSuspendFinish, the two X error handlers) and the resume scan   *)
(* (operationResume, checkAndResumeProcess, allocReadlink), modelled from  *)
(* src/xdg-screensaver-shim.c.                                             *)
(*                                                                         *)
(* Spec       : one `suspend <window>` run, with the process it forks,     *)
(*              the X server, the D-Bus screen saver service and the       *)
(*              senders of signals as the environment.                     *)
(* FairSpec   : Spec with weak fairness of each process's steps.           *)
(* ResumeSpec : one `resume <window>` run over a process table.            *)
(***************************************************************************)
EXTENDS Integers, Sequences, FiniteSets, TLC

VARIABLES
    proc,        \* the two processes of a suspend run: control, data, ghosts
    xsock,       \* events the X server has written to the display connection
    winState,    \* the target window at the X server: "valid" | "invalid"
    subscribed,  \* StructureNotifyMask selected on the target window
    bus,         \* the method calls sent to the screen saver service
    releaseLog,  \* one entry per execution of the un-inhibit step of Finish
    rs           \* the resume run: control, locals, ghosts

vars == <<proc, xsock, winState, subscribed, bus, releaseLog, rs>>
suspendVars == <<proc, xsock, winState, subscribed, bus, releaseLog>>

----------------------------------------------------------------------------
(* Bounds *)

\* gated signals that may be pending in one process at a time
MaxSignals == 1
\* X events other than the target's DestroyNotify that may be unread at a time
MaxEvents == 2
\* cookies the screen saver service may hand out: 1..MaxCookie
MaxCookie == 1

----------------------------------------------------------------------------
(* Constants of the program *)

NULL == "NULL"
EXIT_SIGNALS == {"SIGHUP", "SIGINT", "SIGPIPE", "SIGQUIT", "SIGTERM"}

Procs == {"parent", "child"}
\* the window operationSuspend is called with, and some other window
window == "W"
otherWindow == "V"

DestroyNotifyEv(w) == [type |-> "DestroyNotify", event |-> w]
ConfigureNotifyEv(w) == [type |-> "ConfigureNotify", event |-> w]
\* what a client selecting StructureNotifyMask on `window` can be sent besides the
\* window's own DestroyNotify: another structure event, or a DestroyNotify a third
\* client forges with XSendEvent for another window
OtherEvents == {ConfigureNotifyEv(window), DestroyNotifyEv(otherWindow)}

Cookies == 1..MaxCookie

\* A D-Bus message pointer: NULL, or a message with its arguments
NoMsg == [null |-> TRUE, args |-> <<>>]
Msg(a) == [null |-> FALSE, args |-> a]
U32(v) == [type |-> "UINT32", val |-> v]
StrArg == [type |-> "STRING", val |-> 0]

\* Is the target's DestroyNotify among these events?
HasDestroy(q) == \E i \in 1..Len(q) : q[i] = DestroyNotifyEv(window)

----------------------------------------------------------------------------
(* operationSuspendData and a process *)

\* *d = (struct operationSuspendData_t){0}; d->signalFd = -1
operationSuspendData ==
    [dbusConn |-> NULL, inhibitReason |-> NULL, inhibitMsg |-> NULL,
     inhibitReplyMsg |-> NoMsg, unInhibitMsg |-> NULL, unInhibitReplyMsg |-> NULL,
     screenSaverInhibitCookie |-> 0, screenSaverInhibited |-> FALSE,
     display |-> NULL, signalFd |-> "-1"]

NoProc ==
    [status |-> "none", pc |-> "none", d |-> operationSuspendData,
     blocked |-> FALSE, pending |-> {}, handlers |-> FALSE, xq |-> <<>>,
     returnValue |-> TRUE, finRet |-> TRUE, finCaller |-> "none",
     cause |-> "none", sigRead |-> "none", finRuns |-> 0, xCloses |-> 0,
     fault |-> FALSE, bothAtDrain |-> FALSE,
     bothAtSelect |-> FALSE, badSubscribe |-> FALSE, wokeOnX |-> FALSE]

Running(p) == proc[p].status = "running"
At(p, l) == Running(p) /\ proc[p].pc = l
Set(p, r) == proc' = [proc EXCEPT ![p] = r]

\* cleanReturn(value): returnValue = value; goto cleanReturn
\* and there, line 290, operationSuspendFinish() is called
cleanReturn(r, value, why) ==
    [r EXCEPT !.returnValue = value, !.pc = "fin85",
              !.finCaller = "operationSuspend", !.cause = why]

\* exit(status), main returning it, or death by a signal: the process is gone, and
\* with it its pending signals and Xlib's queue
ExitProc(r, st) ==
    [r EXCEPT !.status = st, !.pc = "exited", !.pending = {}, !.xq = <<>>]

----------------------------------------------------------------------------
(* The environment of a suspend run *)

Others == <<xsock, winState, subscribed, bus, releaseLog, rs>>

\* what dbus_connection_send_with_reply_and_block can return for Inhibit
InhibitReplies ==
    {NoMsg, Msg(<<>>), Msg(<<StrArg>>)}
        \cup {Msg(<<U32(c)>>) : c \in Cookies}
        \cup {Msg(<<U32(c), U32(0)>>) : c \in Cookies}
\* dbus_message_iter_get_arg_type of an iterator at the i-th argument
ArgType(m, i) == IF i <= Len(m.args) THEN m.args[i].type ELSE "INVALID"

\* the labels of operationSuspendFinish and of the two handlers that call it
FinishPcs ==
    {"XErrorHandler", "XIOErrorHandler", "fin85", "fin94", "fin129", "fin143",
     "fin147", "fin149"}
\* p can still look at the display connection and at its signal fd: what the server
\* sends once no process can is not observable by the run and is left out
Listening(p) == Running(p) /\ proc[p].pc \notin FinishPcs

\* The window is destroyed at the server; a subscribed client is sent DestroyNotify
DestroyWindow ==
    /\ winState = "valid"
    /\ \E p \in Procs : Listening(p)
    /\ winState' = "invalid"
    /\ xsock' = IF subscribed THEN Append(xsock, DestroyNotifyEv(window)) ELSE xsock
    /\ UNCHANGED <<proc, subscribed, bus, releaseLog, rs>>

\* the events sent and not yet taken by XNextEvent in any process
Unread ==
    Cardinality({i \in 1..Len(xsock) : xsock[i] \in OtherEvents})
        + Cardinality({i \in 1..Len(proc["child"].xq) :
                         proc["child"].xq[i] \in OtherEvents})

\* The server sends some other event to the subscribed connection
OtherXEvent ==
    /\ subscribed
    /\ Unread < MaxEvents
    /\ \E p \in Procs : Listening(p)
    /\ \E e \in OtherEvents : xsock' = Append(xsock, e)
    /\ UNCHANGED <<proc, winState, subscribed, bus, releaseLog, rs>>

\* kill(pid, s) by anyone: a blocked signal stays pending in that process, an
\* unblocked one takes its default disposition and terminates it. The mask is
\* never changed back and the signal fd is not read again once the process is in
\* operationSuspendFinish, so a signal sent then stays pending unseen: left out
SendSignal(p, s) ==
    /\ Listening(p)
    /\ s \notin proc[p].pending
    /\ Cardinality(proc[p].pending) < MaxSignals
    /\ Set(p, IF proc[p].blocked
              THEN [proc[p] EXCEPT !.pending = @ \cup {s}]
              ELSE ExitProc(proc[p], "killed"))
    /\ UNCHANGED <<xsock, winState, subscribed, bus, releaseLog, rs>>

----------------------------------------------------------------------------
(* X error handlers *)

\* Xlib reports an error: through the installed custom handler, or through the
\* default handler, which prints and exits with status 1
RaiseXError(r, handler) ==
    IF r.handlers
    THEN [r EXCEPT !.pc = handler, !.fault = TRUE]
    ELSE [ExitProc(r, "exit_failure") EXCEPT !.fault = TRUE]

\* mutant of HandlerBody: the handler exits without operationSuspendFinish()
HandlerBody_NoFinish(r, handler) ==
    ExitProc([r EXCEPT !.cause = handler], "exit_failure")

\* operationSuspendXErrorHandler, lines 153-155, and operationSuspendXIOErrorHandler,
\* lines 161-163: display = NULL, then operationSuspendFinish()
HandlerBody(r, handler) ==
    [r EXCEPT !.d.display = NULL, !.pc = "fin85", !.finCaller = handler,
              !.cause = IF @ = "none" THEN handler ELSE @]

operationSuspendXErrorHandler(p) ==
    /\ At(p, "XErrorHandler")
    /\ Set(p, HandlerBody(proc[p], "XErrorHandler"))
    /\ UNCHANGED Others

operationSuspendXIOErrorHandler(p) ==
    /\ At(p, "XIOErrorHandler")
    /\ Set(p, HandlerBody(proc[p], "XIOErrorHandler"))
    /\ UNCHANGED Others

----------------------------------------------------------------------------
(* operationSuspend: set-up, lines 168-257 *)

\* mutant of SigProcMask: the signals are left unblocked
SigProcMask_NoBlock(p) ==
    /\ At(p, "l180")
    /\ \E ok \in BOOLEAN :
         Set(p, IF ok THEN [proc[p] EXCEPT !.pc = "l184"]
                ELSE cleanReturn(proc[p], FALSE, "setup"))
    /\ UNCHANGED Others

\* lines 171-183: sigprocmask(SIG_BLOCK, EXIT_SIGNALS)
SigProcMask(p) ==
    /\ At(p, "l180")
    /\ \E ok \in BOOLEAN :
         Set(p, IF ok THEN [proc[p] EXCEPT !.blocked = TRUE, !.pc = "l184"]
                ELSE cleanReturn(proc[p], FALSE, "setup"))
    /\ UNCHANGED Others

\* lines 184-187: signalfd
SignalFd(p) ==
    /\ At(p, "l184")
    /\ \E ok \in BOOLEAN :
         Set(p, IF ok THEN [proc[p] EXCEPT !.d.signalFd = "open", !.pc = "l189"]
                ELSE cleanReturn(proc[p], FALSE, "setup"))
    /\ UNCHANGED Others

\* lines 189-194: dbus_bus_get
DBusGet(p) ==
    /\ At(p, "l189")
    /\ \E ok \in BOOLEAN :
         Set(p, IF ok THEN [proc[p] EXCEPT !.d.dbusConn = "conn", !.pc = "l196"]
                ELSE cleanReturn(proc[p], FALSE, "setup"))
    /\ UNCHANGED Others

\* lines 196-218: build the Inhibit message; each of the four allocations may fail
InhibitBuild(p) ==
    /\ At(p, "l196")
    /\ \E out \in {"oom196", "oom206", "oom211", "oom214", "ok"} :
         LET r1 == [proc[p] EXCEPT
                      !.d.inhibitMsg = IF out = "oom196" THEN NULL ELSE "msg",
                      !.d.inhibitReason =
                          IF out \in {"oom214", "ok"} THEN "reason" ELSE NULL]
         IN Set(p, IF out = "ok" THEN [r1 EXCEPT !.pc = "l219"]
                   ELSE cleanReturn(r1, FALSE, "setup"))
    /\ UNCHANGED Others

\* lines 219-225: send Inhibit and block for the reply
InhibitCall(p) ==
    /\ At(p, "l219")
    /\ \E reply \in InhibitReplies :
         /\ Set(p, IF reply.null THEN cleanReturn(proc[p], FALSE, "setup")
                   ELSE [proc[p] EXCEPT !.d.inhibitReplyMsg = reply, !.pc = "l228"])
         /\ bus' = Append(bus, [method |-> "Inhibit", by |-> p, cookie |-> 0])
    /\ UNCHANGED <<xsock, winState, subscribed, releaseLog, rs>>

\* lines 226-238: the reply must be exactly one UINT32; the cookie is taken, and
\* screenSaverInhibited set, before the check for further arguments
InhibitReply(p) ==
    /\ At(p, "l228")
    /\ LET m == proc[p].d.inhibitReplyMsg
           r1 == [proc[p] EXCEPT !.d.screenSaverInhibitCookie = m.args[1].val,
                                 !.d.screenSaverInhibited = TRUE]
       IN Set(p, IF ArgType(m, 1) # "UINT32"
                 THEN cleanReturn(proc[p], FALSE, "setup")
                 ELSE IF ArgType(m, 2) # "INVALID"
                      THEN cleanReturn(r1, FALSE, "setup")
                      ELSE [r1 EXCEPT !.pc = "l240"])
    /\ UNCHANGED Others

\* lines 240-247: install the custom X error handlers, XOpenDisplay
XOpen(p) ==
    /\ At(p, "l240")
    /\ \E ok \in BOOLEAN :
         LET r1 == [proc[p] EXCEPT !.handlers = TRUE]
         IN Set(p, IF ok THEN [r1 EXCEPT !.d.display = "open", !.pc = "l249"]
                   ELSE cleanReturn(r1, FALSE, "setup"))
    /\ UNCHANGED Others

\* lines 249-257: XSelectInput and XSync. An invalid window comes back as a
\* BadWindow protocol error; the connection may also break (IO error)
XSelectSync(p) ==
    /\ At(p, "l249")
    /\ \E io \in BOOLEAN :
         LET r1 == [proc[p] EXCEPT !.badSubscribe = (winState # "valid")]
         IN IF io
            THEN /\ Set(p, RaiseXError(r1, "XIOErrorHandler"))
                 /\ UNCHANGED subscribed
            ELSE IF winState # "valid"
            THEN /\ Set(p, RaiseXError(r1, "XErrorHandler"))
                 /\ UNCHANGED subscribed
            ELSE /\ Set(p, [r1 EXCEPT !.pc = "l259"])
                 /\ subscribed' = TRUE
    /\ UNCHANGED <<xsock, winState, bus, releaseLog, rs>>

----------------------------------------------------------------------------
(* operationSuspend: fork and the wait loop, lines 258-288 *)

\* mutant of AfterFork: the parent returns through cleanReturn instead of exit()
AfterFork_ParentCleans(r, forkRet) ==
    IF forkRet # 0 THEN cleanReturn(r, TRUE, "fork") ELSE [r EXCEPT !.pc = "l265"]

\* mutant of AfterFork: the parent does not exit and falls through into the loop
AfterFork_NoExit(r, forkRet) == [r EXCEPT !.pc = "l265"]

\* lines 259-262 in the process where fork() returned forkRet: any non-zero value
\* (the child's pid, or -1 when fork failed) ends it at once with EXIT_SUCCESS and
\* no cleanup; 0 goes on to the loop
AfterFork(r, forkRet) ==
    IF forkRet # 0 THEN ExitProc(r, "exit_success") ELSE [r EXCEPT !.pc = "l265"]

\* line 259: fork(). The child is a copy of the parent with no pending signals
Fork(p) ==
    /\ At(p, "l259")
    /\ p = "parent"
    /\ \E ok \in BOOLEAN :
         proc' = IF ok
                 THEN [proc EXCEPT ![p] = AfterFork(proc[p], 1),
                                   !["child"] = AfterFork(
                                       [proc[p] EXCEPT !.pending = {}], 0)]
                 ELSE [proc EXCEPT ![p] = AfterFork(proc[p], -1)]
    /\ UNCHANGED Others

\* line 265: XPending reads what is on the connection into Xlib's queue and says
\* whether the queue is non-empty; reading may hit an X error or a broken connection
XPendingStep(p) ==
    /\ At(p, "l265")
    /\ \E out \in {"ok", "XErrorHandler", "XIOErrorHandler"} :
         IF out = "ok"
         THEN LET q == proc[p].xq \o xsock
              IN /\ Set(p, [proc[p] EXCEPT
                              !.xq = q,
                              !.pc = IF Len(q) > 0 THEN "l267" ELSE "l273",
                              !.bothAtDrain =
                                  @ \/ (HasDestroy(q) /\ proc[p].pending # {})])
                 /\ xsock' = <<>>
         ELSE /\ Set(p, RaiseXError([proc[p] EXCEPT !.wokeOnX = FALSE], out))
              /\ UNCHANGED xsock
    /\ UNCHANGED <<winState, subscribed, bus, releaseLog, rs>>

\* mutant of IsTargetDestroy: the comparison of the window inverted
IsTargetDestroy_Inverted(ev) == ev.type = "DestroyNotify" /\ ev.event # window

\* line 268: is this event the destruction of the watched window?
IsTargetDestroy(ev) == ev.type = "DestroyNotify" /\ ev.event = window

\* mutant of XNextEventStep: `if (XPending(...) > 0)` for the `while`, one event
\* taken in each round of the loop
XNextEventStep_OneEvent(p) ==
    /\ At(p, "l267")
    /\ LET ev == Head(proc[p].xq)
           r1 == [proc[p] EXCEPT !.xq = Tail(@), !.wokeOnX = FALSE]
       IN Set(p, IF IsTargetDestroy(ev) THEN cleanReturn(r1, TRUE, "destroyed")
                 ELSE [r1 EXCEPT !.pc = "l273"])
    /\ UNCHANGED Others

\* lines 266-271: XNextEvent and the test of the event. wokeOnX, set when select()
\* returned for the X descriptor alone, lasts until the first event is taken
XNextEventStep(p) ==
    /\ At(p, "l267")
    /\ LET ev == Head(proc[p].xq)
           r1 == [proc[p] EXCEPT !.xq = Tail(@), !.wokeOnX = FALSE]
       IN Set(p, IF IsTargetDestroy(ev) THEN cleanReturn(r1, TRUE, "destroyed")
                 ELSE [r1 EXCEPT !.pc = "l265"])
    /\ UNCHANGED Others

\* what select() reports readable: the signal fd when a gated signal is pending in
\* this process, the X fd when the server has written to the connection
ReadFdSet(r) ==
    (IF r.pending # {} THEN {"signalFd"} ELSE {})
        \cup (IF xsock # <<>> THEN {"xServerFd"} ELSE {})

\* mutant of AfterSelect: without a signal, back to select() with nothing drained
AfterSelect_NoDrain(ready) == IF "signalFd" \in ready THEN "l280" ELSE "l273"

\* lines 278 and 288: after select, the signal fd is looked at first; if it is not
\* ready the loop goes round to XPending
AfterSelect(ready) == IF "signalFd" \in ready THEN "l280" ELSE "l265"

\* lines 273-278: select() blocks until a descriptor is readable, or fails
SelectStep(p) ==
    /\ At(p, "l273")
    /\ \/ /\ ReadFdSet(proc[p]) # {}
          /\ Set(p, [proc[p] EXCEPT
                       !.pc = AfterSelect(ReadFdSet(proc[p])),
                       !.wokeOnX = (ReadFdSet(proc[p]) = {"xServerFd"}),
                       !.bothAtSelect =
                           @ \/ (HasDestroy(xsock) /\ proc[p].pending # {})])
       \/ Set(p, [cleanReturn(proc[p], FALSE, "select") EXCEPT !.fault = TRUE])
    /\ UNCHANGED Others

\* mutant of SignalResult: every gated signal counts as a clean stop
SignalResult_AnySignal(signo) == signo \in EXIT_SIGNALS

\* line 286: the value operationSuspend returns for a consumed signal
SignalResult(signo) == signo = "SIGTERM"

\* lines 279-286: read one signal from the signal fd
ReadSignal(p) ==
    /\ At(p, "l280")
    /\ \/ \E s \in proc[p].pending :
            Set(p, [cleanReturn(proc[p], SignalResult(s), "signal")
                      EXCEPT !.pending = @ \ {s}, !.sigRead = s])
       \/ Set(p, [cleanReturn(proc[p], FALSE, "read") EXCEPT !.fault = TRUE])
    /\ UNCHANGED Others

----------------------------------------------------------------------------
(* operationSuspendFinish, lines 82-150 *)

\* lines 82-92: free the Inhibit messages and the reason string
FinishFree(p) ==
    /\ At(p, "fin85")
    /\ Set(p, [proc[p] EXCEPT !.finRet = TRUE, !.finRuns = @ + 1, !.pc = "fin94"])
    /\ UNCHANGED Others

\* mutant of ShouldUnInhibit: no release after a reply with further values
ShouldUnInhibit_OnlyCleanReply(d) ==
    d.screenSaverInhibited /\ Len(d.inhibitReplyMsg.args) = 1

\* line 94: is there a cookie to give back?
ShouldUnInhibit(d) == d.screenSaverInhibited

\* lines 93-128: the un-inhibit step. It can fail while the message is built
\* (lines 97, 108), in the call (line 114) or on a non-empty reply (line 124); the
\* UnInhibit call goes out on the bus unless building the message failed
FinishUnInhibit(p) ==
    /\ At(p, "fin94")
    /\ IF ~ShouldUnInhibit(proc[p].d)
       THEN /\ Set(p, [proc[p] EXCEPT !.pc = "fin129"])
            /\ UNCHANGED <<bus, releaseLog>>
       ELSE \E out \in {"oom97", "oom108", "error", "reply", "ok"} :
            LET cookie == proc[p].d.screenSaverInhibitCookie
                sent == out \in {"error", "reply", "ok"}
            IN /\ Set(p, [proc[p] EXCEPT
                            !.d.unInhibitMsg = IF out = "oom97" THEN NULL ELSE "msg",
                            !.d.unInhibitReplyMsg =
                                IF out \in {"reply", "ok"} THEN "msg" ELSE NULL,
                            !.finRet = (out = "ok"),
                            !.pc = "fin129"])
               /\ releaseLog' = Append(releaseLog,
                      [by |-> p, cookie |-> cookie, out |-> out])
               /\ bus' = IF sent
                         THEN Append(bus, [method |-> "UnInhibit", by |-> p,
                                           cookie |-> cookie])
                         ELSE bus
    /\ UNCHANGED <<xsock, winState, subscribed, rs>>

\* lines 129-142: unref the UnInhibit messages and the connection, close signalFd
FinishUnref(p) ==
    /\ At(p, "fin129")
    /\ Set(p, [proc[p] EXCEPT
                 !.d.dbusConn = IF @ # NULL THEN "unref" ELSE @,
                 !.d.signalFd = IF @ # "-1" THEN "closed" ELSE @,
                 !.pc = "fin143"])
    /\ UNCHANGED Others

\* mutant of FinishXHandlers: XCloseDisplay with the custom handlers still set
FinishXHandlers_KeepsHandlers(p) ==
    /\ At(p, "fin143")
    /\ Set(p, IF proc[p].d.display # NULL
              THEN [proc[p] EXCEPT !.pc = "fin147"]
              ELSE [proc[p] EXCEPT !.pc = "fin149"])
    /\ UNCHANGED Others

\* lines 143-146: with a display, the custom X error handlers are unset
FinishXHandlers(p) ==
    /\ At(p, "fin143")
    /\ Set(p, IF proc[p].d.display # NULL
              THEN [proc[p] EXCEPT !.handlers = FALSE, !.pc = "fin147"]
              ELSE [proc[p] EXCEPT !.pc = "fin149"])
    /\ UNCHANGED Others

\* line 147: XCloseDisplay, which may itself meet a broken connection
FinishXClose(p) ==
    /\ At(p, "fin147")
    /\ \E io \in BOOLEAN :
         IF io
         THEN /\ Set(p, RaiseXError(proc[p], "XIOErrorHandler"))
              /\ UNCHANGED subscribed
         ELSE /\ Set(p, [proc[p] EXCEPT !.d.display = "closed",
                                        !.xCloses = @ + 1, !.pc = "fin149"])
              /\ subscribed' = FALSE
    /\ UNCHANGED <<xsock, winState, bus, releaseLog, rs>>

\* mutant of ReturnStatus: the result of operationSuspendFinish is dropped
ReturnStatus_FinishIgnored(r) ==
    IF r.returnValue THEN "exit_success" ELSE "exit_failure"

\* lines 290-293 and main, line 481: the exit status of a run that came to
\* cleanReturn
ReturnStatus(r) ==
    IF r.returnValue /\ r.finRet THEN "exit_success" ELSE "exit_failure"

\* mutant of FinishReturn: an error handler returns to Xlib after the cleanup, and
\* the interrupted operationSuspend goes on
FinishReturn_HandlerReturns(p) ==
    /\ At(p, "fin149")
    /\ Set(p, IF proc[p].finCaller = "operationSuspend"
              THEN ExitProc([proc[p] EXCEPT !.returnValue = @ /\ proc[p].finRet],
                            ReturnStatus(proc[p]))
              ELSE cleanReturn(proc[p], FALSE, proc[p].cause))
    /\ UNCHANGED Others

\* line 149, and what the caller does with the result: operationSuspend returns it
\* to main; an error handler goes on to Xlib's default handler and exit(EXIT_FAILURE)
FinishReturn(p) ==
    /\ At(p, "fin149")
    /\ Set(p, IF proc[p].finCaller = "operationSuspend"
              THEN ExitProc([proc[p] EXCEPT !.returnValue = @ /\ proc[p].finRet],
                            ReturnStatus(proc[p]))
              ELSE ExitProc(proc[p], "exit_failure"))
    /\ UNCHANGED Others

----------------------------------------------------------------------------
(* The suspend run *)

RsIdle == [pc |-> "idle"]

Init ==
    /\ proc = [p \in Procs |->
                 IF p = "parent"
                 THEN [NoProc EXCEPT !.status = "running", !.pc = "l180"]
                 ELSE NoProc]
    /\ xsock = <<>>
    /\ winState \in {"valid", "invalid"}
    /\ subscribed = FALSE
    /\ bus = <<>>
    /\ releaseLog = <<>>
    /\ rs = RsIdle

\* one step of process p
ProcStep(p) ==
    \/ SigProcMask(p)
    \/ SignalFd(p)
    \/ DBusGet(p)
    \/ InhibitBuild(p)
    \/ InhibitCall(p)
    \/ InhibitReply(p)
    \/ XOpen(p)
    \/ XSelectSync(p)
    \/ Fork(p)
    \/ XPendingStep(p)
    \/ XNextEventStep(p)
    \/ SelectStep(p)
    \/ ReadSignal(p)
    \/ operationSuspendXErrorHandler(p)
    \/ operationSuspendXIOErrorHandler(p)
    \/ FinishFree(p)
    \/ FinishUnInhibit(p)
    \/ FinishUnref(p)
    \/ FinishXHandlers(p)
    \/ FinishXClose(p)
    \/ FinishReturn(p)

Next ==
    \/ \E p \in Procs : ProcStep(p)
    \/ DestroyWindow
    \/ OtherXEvent
    \/ \E p \in Procs, s \in EXIT_SIGNALS : SendSignal(p, s)

Spec == Init /\ [][Next]_vars

\* a step of process p in which no call fails for a reason outside the program
\* (select() failing, the connection breaking): the scheduler promises the
\* process its turn, it does not promise failures. The server's answer to a
\* subscribe on an invalid window is no such failure: XSync always comes back
NormalStep(p) ==
    ProcStep(p) /\ (proc'[p].fault = proc[p].fault \/ proc'[p].badSubscribe)

\* every process that can take a step eventually takes one
FairSpec == Spec /\ \A p \in Procs : WF_vars(NormalStep(p))

----------------------------------------------------------------------------
(* C strings, strtoul, atoi: what the resume scan computes with *)

NULL_BYTE_LEN == 1
\* bits of an unsigned long (Window), scaled down
ULongBits == 5
ULONG_MAX == 2 ^ ULongBits - 1
\* the first size of the cmdline buffer (line 361), scaled down
CmdlineBufSize == 4

NUL == "NUL"
suspendStr == <<"s", "u", "s", "p", "e", "n", "d">>

\* buf[off] with C's offsets, which start at 0
CharAt(buf, off) == buf[off + 1]

\* strlen(&buf[off]): the bytes before the next NUL
RECURSIVE strlen(_, _)
strlen(buf, off) ==
    IF off >= Len(buf) \/ CharAt(buf, off) = NUL THEN 0 ELSE 1 + strlen(buf, off + 1)

\* the C string at &buf[off], without its NUL
CString(buf, off) == SubSeq(buf, off + 1, off + strlen(buf, off))

HexDigits ==
    <<"0", "1", "2", "3", "4", "5", "6", "7", "8", "9", "a", "b", "c", "d", "e", "f">>
\* the value of a digit character; 16 for what is no digit in any base
DigitVal(c) ==
    IF \E i \in 1..16 : HexDigits[i] = c
    THEN (CHOOSE i \in 1..16 : HexDigits[i] = c) - 1
    ELSE 16

RECURSIVE SkipSpace(_, _)
SkipSpace(s, i) == IF i <= Len(s) /\ s[i] = " " THEN SkipSpace(s, i + 1) ELSE i

\* the digits of strtoul from index i on: the value so far, saturating at ULONG_MAX
RECURSIVE StrtoulDigits(_, _, _, _, _)
StrtoulDigits(s, i, base, acc, ovf) ==
    IF i <= Len(s) /\ DigitVal(s[i]) < base
    THEN LET v == acc * base + DigitVal(s[i])
         IN IF ovf \/ v > ULONG_MAX
            THEN StrtoulDigits(s, i + 1, base, ULONG_MAX, TRUE)
            ELSE StrtoulDigits(s, i + 1, base, v, FALSE)
    ELSE [val |-> acc, i |-> i, ovf |-> ovf]

\* strtoul(s, &end, 0): white space, a sign, 0x for base 16, 0 for base 8, else base
\* 10; val is the value (ULONG_MAX on overflow, negated modulo 2^bits after '-'),
\* end the offset of the first byte not consumed (0 when nothing was converted, the
\* offset of the x for a bare "0x")
strtoul(s) ==
    LET i0 == SkipSpace(s, 1)
        neg == i0 <= Len(s) /\ s[i0] = "-"
        i1 == IF i0 <= Len(s) /\ s[i0] \in {"-", "+"} THEN i0 + 1 ELSE i0
        zero == i1 <= Len(s) /\ s[i1] = "0"
        hex == zero /\ i1 + 1 <= Len(s) /\ s[i1 + 1] = "x"
        base == IF hex THEN 16 ELSE IF zero THEN 8 ELSE 10
        save == IF hex THEN i1 + 2 ELSE i1
        a == StrtoulDigits(s, save, base, 0, FALSE)
    IN IF a.i = save
       THEN [val |-> 0, end |-> IF hex THEN i1 ELSE 0]
       ELSE [val |-> IF a.ovf THEN ULONG_MAX
                     ELSE IF neg THEN (ULONG_MAX + 1 - a.val) % (ULONG_MAX + 1)
                     ELSE a.val,
             end |-> a.i - 1]

\* atoi: the leading decimal digits, 0 when there are none
RECURSIVE AtoiDigits(_, _, _)
AtoiDigits(s, i, acc) ==
    IF i <= Len(s) /\ DigitVal(s[i]) < 10
    THEN AtoiDigits(s, i + 1, acc * 10 + DigitVal(s[i]))
    ELSE acc
atoi(s) == AtoiDigits(s, 1, 0)

----------------------------------------------------------------------------
(* allocReadlink, lines 296-333 *)

deletedSuffix == " (deleted)"
\* lines 319-325: cut " (deleted)" from the end of the link
CutDeleted(link) ==
    IF Len(link) >= 1 /\ link[Len(link)] = deletedSuffix
    THEN SubSeq(link, 1, Len(link) - 1)
    ELSE link

\* what readlink() (or the realloc before it) gives: an errno, or the link as its
\* path and, for an unlinked file, the kernel's " (deleted)" after it
NoLink == <<>>
ReadlinkErr(e) == [errno |-> e, link |-> NoLink]
ReadlinkOk(l) == [errno |-> "none", link |-> l]
\* the result and *returnLink (NoLink for NULL)
allocReadlink(res, ignoreAccesError) ==
    IF res.errno # "none"
    THEN IF ignoreAccesError /\ res.errno \in {"EACCES", "ENOENT"}
         THEN [ok |-> TRUE, link |-> NoLink]
         ELSE [ok |-> FALSE, link |-> NoLink]
    ELSE [ok |-> TRUE, link |-> CutDeleted(res.link)]

----------------------------------------------------------------------------
(* checkAndResumeProcess: the test of the argument blob, lines 376-402 *)

\* lines 361-375: read the file into a buffer that doubles until a read comes
\* back short; got bytes are in the buffer, size is the buffer's size
RECURSIVE ReadCmdline(_, _, _)
ReadCmdline(data, size, got) ==
    LET room == size - got
        rest == Len(data) - got
        cmdlinePartSize == IF rest < room THEN rest ELSE room
        cmdlineSize == got + cmdlinePartSize
    IN IF cmdlineSize < size THEN SubSeq(data, 1, cmdlineSize)
       ELSE ReadCmdline(data, size * 2, cmdlineSize)

\* line 376: the blob must be non-empty and end in NUL
ValidCmdline(cmdline) ==
    ~(Len(cmdline) < 1 \/ CharAt(cmdline, Len(cmdline) - 1) # NUL)

\* mutant of CheckArgsEnd: further arguments after argv[2] are let through
CheckArgsEnd_Loose(cmdlineArgsEnd, cmdlineSize) == cmdlineArgsEnd <= cmdlineSize

\* line 400: nothing may follow argv[2]
CheckArgsEnd(cmdlineArgsEnd, cmdlineSize) == cmdlineArgsEnd = cmdlineSize

\* lines 380-402: TRUE when control reaches the kill at line 404
MatchCmdline(cmdline, win) ==
    LET cmdlineSize == Len(cmdline)
        cmdlineArg1Start == strlen(cmdline, 0) + NULL_BYTE_LEN
        cmdlineArg2Start ==
            cmdlineArg1Start + strlen(cmdline, cmdlineArg1Start) + NULL_BYTE_LEN
        conv == strtoul(CString(cmdline, cmdlineArg2Start))
        windowEnd == cmdlineArg2Start + conv.end
        cmdlineArgsEnd ==
            cmdlineArg2Start + strlen(cmdline, cmdlineArg2Start) + NULL_BYTE_LEN
    IN IF cmdlineArg1Start >= cmdlineSize
          \/ CString(cmdline, cmdlineArg1Start) # suspendStr
       THEN FALSE
       ELSE IF cmdlineArg2Start >= cmdlineSize
       THEN FALSE
       ELSE IF CharAt(cmdline, cmdlineArg2Start) = NUL
               \/ CharAt(cmdline, windowEnd) # NUL
               \/ conv.val # win
       THEN FALSE
       ELSE CheckArgsEnd(cmdlineArgsEnd, cmdlineSize)

----------------------------------------------------------------------------
(* The process table a resume run scans *)

\* entries readdir("/proc") returns in one scan
MaxEntries == 2

\* a blob: each argument followed by NUL
RECURSIVE Blob(_)
Blob(args) == IF args = <<>> THEN <<>> ELSE Head(args) \o <<NUL>> \o Blob(Tail(args))

\* window arguments: literals in the three bases, with white space or a sign, out of
\* range, with trailing bytes, and none at all
WindowTokens ==
    {<<"1">>, <<"8">>, <<"0", "1">>, <<"0", "1", "0">>, <<"0", "x", "1">>,
     <<"0", "x", "8">>, <<"0", "x", "1", "f">>, <<"3", "1">>, <<"3", "2">>,
     <<" ", "1">>, <<"+", "1">>, <<"-", "1">>, <<"0", "x">>, <<"1", "g">>,
     <<"x">>, <<"1", " ">>, <<>>}
OtherArg1 == {<<"s", "u", "s", "p", "e", "n">>, suspendStr \o <<"x">>, <<"r">>, <<>>}

\* the blobs of live processes: one to four arguments
Cmdlines ==
    {Blob(<<a0>>) : a0 \in {<<"p">>, <<>>}}
        \cup {Blob(<<<<"p">>, a1>>) : a1 \in OtherArg1 \cup {suspendStr}}
        \cup {Blob(<<<<"p">>, suspendStr, t>>) : t \in WindowTokens}
        \cup {Blob(<<<<>>, suspendStr, <<"1">>>>)}
        \cup {Blob(<<<<"p">>, a1, <<"1">>>>) : a1 \in OtherArg1}
        \cup {Blob(<<<<"p">>, suspendStr, t, a3>>) :
                t \in {<<"1">>, <<"1", "g">>, <<>>}, a3 \in {<<"x">>, <<>>}}
\* and what a process that rewrote its argument area can show: nothing, or bytes
\* with no NUL at the end
BadCmdlines ==
    {<<>>, <<"p">>, Blob(<<<<"p">>, suspendStr>>) \o <<"1">>}

\* the link of the shim's own executable, of the same file once unlinked, and of
\* another program
ShimLink == <<"/usr/bin/xdg-screensaver">>
Links == {ShimLink, ShimLink \o <<deletedSuffix>>, <<"/usr/bin/other">>}
\* an exe link that cannot be read (another user's process, a kernel thread)
NoExe == <<"unreadable">>

\* names in /proc: of processes, and the others
PidNames == {<<"1", "2">>}
OtherNames == {<<"s", "e", "l", "f">>, <<".">>}

\* /proc/<pid> for the pid the scan makes of an entry's name: the process, or
\* nothing when no process has that pid
DirEntries ==
    {[name |-> n, exe |-> e, cmdline |-> c, alive |-> TRUE, goneAt |-> "never"] :
        n \in PidNames, e \in Links, c \in Cmdlines \cup BadCmdlines}
      \cup {[name |-> n, exe |-> NoExe, cmdline |-> Blob(<<<<"p">>>>), alive |-> TRUE,
             goneAt |-> "never"] : n \in PidNames}
      \cup {[name |-> n, exe |-> NoExe, cmdline |-> <<>>, alive |-> FALSE,
             goneAt |-> "never"] : n \in OtherNames}

\* argv[2] of the resume invocation; main, lines 476-480, takes it through strtoul
WindowArgs == {<<"1">>, <<"0", "1", "0">>, <<"-", "1">>}

----------------------------------------------------------------------------
(* operationResume and checkAndResumeProcess as steps *)

RSet(r) == rs' = r /\ UNCHANGED suspendVars

\* cleanReturn(value) in checkAndResumeProcess; genuine: the failure is not the
\* process having gone away
MReturn(r, value, stage, genuine) ==
    [r EXCEPT !.mret = value, !.stage = stage, !.pc = "m411",
              !.mgenuine = ~value /\ genuine,
              !.genuine = @ \/ (~value /\ genuine),
              !.raceErr = @ \/ (~value /\ ~genuine)]

\* lines 427-429: the scan's own executable link
ResumeSelfLink ==
    /\ rs.pc = "r427"
    /\ \E res \in {ReadlinkErr("ENOENT"), ReadlinkErr("ENOMEM"),
                   ReadlinkOk(ShimLink), ReadlinkOk(ShimLink \o <<deletedSuffix>>)} :
         LET a == allocReadlink(res, FALSE)
         IN RSet(IF a.ok THEN [rs EXCEPT !.selfExeLink = a.link, !.pc = "r431"]
                 ELSE [rs EXCEPT !.returnValue = FALSE, !.genuine = TRUE,
                                 !.pc = "r448"])

\* lines 431-434: opendir("/proc")
ResumeOpenDir ==
    /\ rs.pc = "r431"
    /\ \E ok \in BOOLEAN :
         RSet(IF ok THEN [rs EXCEPT !.opened = TRUE, !.pc = "r436"]
              ELSE [rs EXCEPT !.returnValue = FALSE, !.genuine = TRUE,
                              !.pc = "r448"])

\* lines 437-442: the loop over the name's characters only `continue`s itself, so
\* every name goes on to atoi
ProcDirEntPid(name) == atoi(name)

\* lines 436-442: readdir; at the end of the directory the scan is over
ResumeReadDir ==
    /\ rs.pc = "r436"
    /\ IF rs.left = 0
       THEN RSet([rs EXCEPT !.pc = "r448"])
       ELSE \E e \in DirEntries :
              RSet([rs EXCEPT !.left = @ - 1, !.cur = e,
                              !.pid = ProcDirEntPid(e.name),
                              !.exeLink = NoLink, !.cmdlineFd = "-1",
                              !.cmdline = <<>>, !.signalled = FALSE,
                              !.stage = "none", !.mret = TRUE,
                              !.mgenuine = FALSE, !.pc = "m340"])

\* the process being looked at exits
ProcessExits ==
    /\ rs.pc \in {"m340", "m350", "m360", "m404"}
    /\ rs.cur.alive
    /\ RSet([rs EXCEPT !.cur.alive = FALSE, !.cur.goneAt = rs.pc])

\* lines 340-348: readlink of /proc/<pid>/exe
MatchReadlink ==
    /\ rs.pc = "m340"
    /\ \E inj \in {"none", "ENOMEM", "EIO"} :
         LET res == IF inj # "none" THEN ReadlinkErr(inj)
                    ELSE IF ~rs.cur.alive THEN ReadlinkErr("ENOENT")
                    ELSE IF rs.cur.exe = NoExe THEN ReadlinkErr("EACCES")
                    ELSE ReadlinkOk(rs.cur.exe)
             a == allocReadlink(res, TRUE)
         IN RSet(IF ~a.ok THEN MReturn(rs, FALSE, "readlink", TRUE)
                 ELSE IF a.link = NoLink THEN MReturn(rs, TRUE, "readlink", FALSE)
                 ELSE [rs EXCEPT !.exeLink = a.link, !.pc = "m350"])

\* lines 350-359: open /proc/<pid>/cmdline
MatchOpen ==
    /\ rs.pc = "m350"
    /\ \E inj \in {"none", "ENOMEM", "EMFILE", "EACCES"} :
         LET err == IF inj # "none" THEN inj
                    ELSE IF ~rs.cur.alive THEN "ENOENT"
                    ELSE "none"
         IN RSet(IF err = "none"
                 THEN [rs EXCEPT !.cmdlineFd = "open", !.pc = "m360"]
                 ELSE IF err \in {"EACCES", "ENOENT"}
                 THEN MReturn(rs, TRUE, "open", FALSE)
                 ELSE MReturn(rs, FALSE, "open", TRUE))

\* lines 360-379: read the blob; a process that has gone shows no bytes
MatchRead ==
    /\ rs.pc = "m360"
    /\ \E inj \in {"none", "ENOMEM", "EIO"} :
         LET data == IF rs.cur.alive THEN rs.cur.cmdline ELSE <<>>
             buf == ReadCmdline(data, CmdlineBufSize, 0)
         IN RSet(IF inj # "none" THEN MReturn(rs, FALSE, "read", TRUE)
                 ELSE IF ~ValidCmdline(buf)
                 THEN MReturn([rs EXCEPT !.cmdline = buf], FALSE, "read",
                              rs.cur.alive)
                 ELSE [rs EXCEPT !.cmdline = buf, !.pc = "m380"])

\* lines 380-402: the test of the blob
MatchArgs ==
    /\ rs.pc = "m380"
    /\ RSet(IF MatchCmdline(rs.cmdline, rs.window)
            THEN [rs EXCEPT !.pc = "m404"]
            ELSE MReturn(rs, TRUE, "args", FALSE))

\* lines 403-410: kill(pid, SIGTERM)
MatchKill ==
    /\ rs.pc = "m404"
    /\ \E inj \in {"none", "EPERM", "EINVAL"} :
         LET err == IF inj # "none" THEN inj
                    ELSE IF ~rs.cur.alive THEN "ESRCH"
                    ELSE "none"
         IN RSet(IF err = "none"
                 THEN MReturn([rs EXCEPT !.signalled = TRUE], TRUE, "kill", FALSE)
                 ELSE IF err \in {"EPERM", "ESRCH"}
                 THEN MReturn(rs, TRUE, "kill", FALSE)
                 ELSE MReturn(rs, FALSE, "kill", TRUE))

\* lines 443-446: a failed check makes the scan's result failure; the loop goes on
AfterCheck(r) ==
    [r EXCEPT !.returnValue = IF r.mret THEN @ ELSE FALSE,
              !.calls = @ + 1, !.pc = "r436"]

\* checkAndResumeProcess is not looking at any process
NoCandidate ==
    [name |-> <<>>, exe |-> NoExe, cmdline |-> <<>>, alive |-> FALSE,
     goneAt |-> "never"]

\* lines 411-419, where the descriptor is closed and the buffers are freed, and
\* lines 443-447
ResumeAfterCheck ==
    /\ rs.pc = "m411"
    /\ RSet(AfterCheck([rs EXCEPT !.cmdlineFd = "-1", !.exeLink = NoLink,
                                  !.cmdline = <<>>, !.cur = NoCandidate,
                                  !.pid = 0, !.signalled = FALSE,
                                  !.stage = "none", !.mgenuine = FALSE]))

\* lines 448-453
ResumeReturn ==
    /\ rs.pc = "r448"
    /\ RSet([rs EXCEPT !.pc = "done"])

ResumeInit ==
    /\ proc = [p \in Procs |-> NoProc]
    /\ xsock = <<>>
    /\ winState = "valid"
    /\ subscribed = FALSE
    /\ bus = <<>>
    /\ releaseLog = <<>>
    /\ \E arg \in WindowArgs, n \in 0..MaxEntries :
         rs = [pc |-> "r427", window |-> strtoul(arg).val, selfExeLink |-> NoLink,
               left |-> n, nEntries |-> n, opened |-> FALSE,
               cur |-> [name |-> <<>>, exe |-> NoExe, cmdline |-> <<>>,
                        alive |-> FALSE, goneAt |-> "never"], mgenuine |-> FALSE,
               pid |-> 0, exeLink |-> NoLink, cmdlineFd |-> "-1", cmdline |-> <<>>,
               mret |-> TRUE, returnValue |-> TRUE, stage |-> "none",
               signalled |-> FALSE, calls |-> 0, genuine |-> FALSE,
               raceErr |-> FALSE]

ResumeNext ==
    \/ ResumeSelfLink
    \/ ResumeOpenDir
    \/ ResumeReadDir
    \/ ProcessExits
    \/ MatchReadlink
    \/ MatchOpen
    \/ MatchRead
    \/ MatchArgs
    \/ MatchKill
    \/ ResumeAfterCheck
    \/ ResumeReturn

ResumeSpec == ResumeInit /\ [][ResumeNext]_vars

----------------------------------------------------------------------------
(* Properties of the suspend run *)

Exited(p) == proc[p].status \in {"exit_success", "exit_failure", "killed"}
InLoop(p) == Running(p) /\ proc[p].pc \in {"l265", "l267", "l273", "l280"}
\* the UnInhibit calls that went out on the bus
UnInhibits == SelectSeq(bus, LAMBDA m : m.method = "UnInhibit")
\* the un-inhibit step ran exactly once, in p, with p's cookie; the call went out
\* unless building the message ran out of memory
ReleasedOnceBy(p) ==
    /\ Len(releaseLog) = 1
    /\ releaseLog[1].by = p
    /\ releaseLog[1].cookie = proc[p].d.screenSaverInhibitCookie
    /\ releaseLog[1].cookie \in Cookies
    /\ IF releaseLog[1].out \in {"oom97", "oom108"}
       THEN UnInhibits = <<>>
       ELSE UnInhibits = <<[method |-> "UnInhibit", by |-> p,
                            cookie |-> releaseLog[1].cookie]>>

\* C1 (at-most-once release): over every path of a suspend run, the un-inhibit step
\* runs at most once, and at most one UnInhibit call is sent, in total across the
\* parent and the forked child.
C1_AtMostOnceRelease ==
    /\ Len(releaseLog) <= 1
    /\ Len(UnInhibits) <= 1

\* C1 witness: the parent has forked and left, and the child has released the cookie.
C1_Witness ==
    /\ proc["parent"].status = "exit_success"
    /\ Exited("child")
    /\ Len(UnInhibits) = 1
    /\ UnInhibits[1].by = "child"

\* C2 (no leak), as claimed: once a cookie has been obtained, when no process of the
\* run is left the release has been made exactly once with that cookie, whatever
\* fork() returned.
C2_NoLeak ==
    \A p \in Procs :
        (proc[p].d.screenSaverInhibited /\ \A q \in Procs : ~Running(q))
            => /\ Len(releaseLog) = 1
               /\ releaseLog[1].cookie = proc[p].d.screenSaverInhibitCookie

\* the injected failures after which "no fault" no longer holds for p: an X error
\* or IO error, a failed select or a failed read of the signal fd
NoFault(p) == ~proc[p].fault

\* C3 (destruction priority), as claimed: whenever the target's DestroyNotify and a
\* gated signal were both ready in one loop iteration - at the drain or when select()
\* returned - the destruction decides the run and the signal does not.
C3_DestructionPriority ==
    \A p \in Procs :
        ((proc[p].bothAtDrain \/ proc[p].bothAtSelect) /\ NoFault(p))
            => /\ proc[p].cause \in {"none", "destroyed"}
               /\ Exited(p) =>
                    (proc[p].status = "exit_success" <=> proc[p].finRet)

\* C3 amended: when the DestroyNotify is in Xlib's queue at the drain while a signal
\* is pending, the destruction decides the run and operationSuspend returns success
\* if the release succeeds; when both become ready while select() blocks, the signal
\* fd is looked at first, the signal is consumed and decides the run, and the result
\* is success only for SIGTERM.
C3_DrainPriority ==
    \A p \in Procs :
        /\ (proc[p].bothAtDrain /\ NoFault(p))
             => /\ proc[p].cause \in {"none", "destroyed"}
                /\ proc[p].pc # "l280"
                /\ Exited(p) =>
                     (proc[p].status = "exit_success" <=> proc[p].finRet)
        /\ (proc[p].bothAtSelect /\ NoFault(p))
             => /\ proc[p].pc = "l280" \/ proc[p].cause = "signal"
                /\ Exited(p) =>
                     (proc[p].status = "exit_success"
                        <=> (proc[p].sigRead = "SIGTERM" /\ proc[p].finRet))

\* C3 witness: the child found the DestroyNotify at the drain with SIGINT pending and
\* is about to return success.
C3_Witness ==
    /\ proc["child"].bothAtDrain
    /\ "SIGINT" \in proc["child"].pending
    /\ proc["child"].cause = "destroyed"
    /\ proc["child"].pc = "fin149"
    /\ proc["child"].finCaller = "operationSuspend"
    /\ proc["child"].returnValue /\ proc["child"].finRet

\* C8 (signal exit policy): a run whose loop consumed a gated signal goes to the
\* cleanup; it ends in success exactly when the signal is SIGTERM and the cleanup
\* succeeded, so SIGHUP, SIGINT, SIGPIPE and SIGQUIT always end in failure; and in
\* all five cases the release is made, once, with the cookie.
C8_SignalExitPolicy ==
    \A p \in Procs :
        proc[p].cause = "signal"
            => /\ proc[p].sigRead \in EXIT_SIGNALS
               /\ proc[p].pc \in FinishPcs \cup {"exited"}
               /\ proc[p].finCaller = "operationSuspend"
               /\ proc[p].pc \in {"fin129", "fin143", "fin147", "fin149", "exited"}
                    => ReleasedOnceBy(p)
               /\ Exited(p) =>
                    (proc[p].status = "exit_success"
                       <=> /\ proc[p].sigRead = "SIGTERM"
                           /\ proc[p].finRet
                           /\ NoFault(p))

\* C8 witness: the child consumed SIGTERM and ended in success, the cookie released.
C8_Witness ==
    /\ proc["child"].cause = "signal"
    /\ proc["child"].sigRead = "SIGTERM"
    /\ proc["child"].status = "exit_success"
    /\ ReleasedOnceBy("child")

\* C9 (invalid window): when the window is invalid at the subscribe, the invoking
\* process never forks, ends with a failure status, and has made the release, once,
\* with the cookie it acquired, before it exits.
C9_InvalidWindow ==
    \A p \in Procs :
        proc[p].badSubscribe
            => /\ p = "parent"
               /\ proc["child"].status = "none"
               /\ proc[p].pc \in FinishPcs \cup {"exited"}
               /\ Exited(p) => (proc[p].status = "exit_failure" /\ ReleasedOnceBy(p))

\* C9 witness: BadWindow at XSync, the handler ran the cleanup, the parent exited
\* with failure.
C9_Witness ==
    /\ proc["parent"].badSubscribe
    /\ proc["parent"].cause = "XErrorHandler"
    /\ proc["parent"].status = "exit_failure"
    /\ ReleasedOnceBy("parent")

\* C10 (window destroyed, liveness): once the child is in the wait loop and the
\* target's DestroyNotify is on the display connection, the child eventually leaves
\* the loop and exits, having made the release exactly once; and if it consumed no
\* signal, met no failure and the release succeeded, it exits with success.
C10_DestroyLeadsToRelease ==
    (InLoop("child") /\ HasDestroy(proc["child"].xq \o xsock))
        ~> (/\ Exited("child")
            /\ ReleasedOnceBy("child")
            /\ (proc["child"].sigRead = "none" /\ NoFault("child")
                  /\ proc["child"].finRet)
                 => proc["child"].status = "exit_success")

\* C10 witness: the child left the loop on the DestroyNotify, no signal consumed,
\* released the cookie and exited with success.
C10_Witness ==
    /\ proc["child"].cause = "destroyed"
    /\ proc["child"].sigRead = "none"
    /\ proc["child"].status = "exit_success"
    /\ ReleasedOnceBy("child")
    /\ releaseLog[1].out = "ok"

\* the un-inhibit step ran in p and failed
ReleaseFailedIn(p) ==
    \E i \in 1..Len(releaseLog) :
        releaseLog[i].by = p /\ releaseLog[i].out # "ok"

\* C11 (release failure handling): when the un-inhibit step fails, by an allocation
\* failure, a call error or a non-empty reply, the cleanup goes on: the connection
\* reference is dropped, the signal fd is closed and, where a display was opened and
\* Xlib reports nothing, the handlers are unset and the display is closed; the
\* process ends in failure, also when the cause was the window's destruction or
\* SIGTERM.
C11_ReleaseFailure ==
    \A p \in Procs :
        ReleaseFailedIn(p)
            => /\ proc[p].pc \in {"fin129", "fin143", "fin147", "fin149", "exited"}
               /\ ~proc[p].finRet
               /\ Exited(p)
                    => /\ proc[p].d.dbusConn = "unref"
                       /\ proc[p].d.signalFd = "closed"
                       /\ proc[p].status = "exit_failure"
                       /\ NoFault(p)
                            => /\ proc[p].d.display \in {NULL, "closed"}
                               /\ proc[p].d.display = "closed"
                                    => (~proc[p].handlers /\ proc[p].xCloses = 1)
                               /\ proc[p].cause \in {"destroyed", "signal"}
                                    => proc[p].d.display = "closed"

\* C11 witness: the window was destroyed, the UnInhibit call came back with an
\* error, the child closed everything and ended in failure.
C11_Witness ==
    /\ proc["child"].cause = "destroyed"
    /\ proc["child"].returnValue = FALSE
    /\ Len(releaseLog) = 1
    /\ releaseLog[1].out = "error"
    /\ proc["child"].d.display = "closed"
    /\ proc["child"].d.signalFd = "closed"
    /\ proc["child"].status = "exit_failure"

\* C13 (drain before block): whenever a process is at select(), Xlib's queue is
\* empty - every event read from the connection has been taken - so it never blocks
\* with the target's DestroyNotify queued; and after a wake-up for the X descriptor
\* alone the process is back at the drain, the wait not ended.
C13_DrainBeforeBlock ==
    \A p \in Procs :
        /\ At(p, "l273") => (proc[p].xq = <<>> /\ ~HasDestroy(proc[p].xq))
        /\ proc[p].wokeOnX
             => /\ Running(p)
                /\ proc[p].pc \in {"l265", "l267"}
                /\ proc[p].cause = "none"

\* C13 witness: select() returned for the X descriptor alone, XPending has read the
\* connection, and the target's DestroyNotify is the next event to take.
C13_Witness ==
    /\ proc["child"].wokeOnX
    /\ proc["child"].pending = {}
    /\ At("child", "l267")
    /\ Head(proc["child"].xq) = DestroyNotifyEv(window)



HandlerPcs == {"XErrorHandler", "XIOErrorHandler"}

\* C14 (invariant I2): XCloseDisplay is only called, and the display only closed,
\* with the custom handlers unset, so a custom handler is only entered with the
\* display open and never closed; and once a custom handler has called the cleanup,
\* the cleanup has no display to work on, never comes to XCloseDisplay, and no
\* handler is entered again.
C14_HandlerTeardown ==
    \A p \in Procs :
        /\ At(p, "fin147") => (~proc[p].handlers /\ proc[p].d.display = "open")
        /\ proc[p].d.display = "closed" => ~proc[p].handlers
        /\ (At(p, "fin147") \/ proc[p].xCloses > 0)
             => proc[p].finCaller = "operationSuspend"
        /\ proc[p].pc \in HandlerPcs
             => /\ proc[p].handlers
                /\ proc[p].d.display = "open"
                /\ proc[p].xCloses = 0
                /\ proc[p].finCaller = "none"
        /\ proc[p].finCaller \in HandlerPcs
             => /\ proc[p].pc \notin HandlerPcs \cup {"fin147"}
                /\ proc[p].d.display = NULL
                /\ proc[p].xCloses = 0

\* C14 witness: on the normal path the child unset the handlers, closed the display
\* and left with success.
C14_Witness ==
    /\ proc["child"].finCaller = "operationSuspend"
    /\ ~proc["child"].handlers
    /\ proc["child"].d.display = "closed"
    /\ proc["child"].xCloses = 1
    /\ proc["child"].status = "exit_success"

\* C15 (single cleanup per process): in each process operationSuspendFinish runs at
\* most once and the display is closed at most once; a handler that has called the
\* cleanup stays in it until the process exits, with a failure status, and never
\* closes the display; the messages and the reason string, freed only at the start
\* of the cleanup, are so freed at most once.
C15_SingleCleanup ==
    \A p \in Procs :
        /\ proc[p].finRuns <= 1
        /\ proc[p].xCloses <= 1
        /\ proc[p].xCloses = 1 => proc[p].finRuns = 1
        /\ proc[p].finCaller \in HandlerPcs
             => /\ proc[p].pc \in FinishPcs \cup {"exited"}
                /\ proc[p].xCloses = 0
                /\ Exited(p) => (proc[p].status = "exit_failure"
                                   /\ proc[p].finRuns = 1)

\* C15 witness: the connection broke while the child was draining; the IO error
\* handler ran the cleanup once and the child ended in failure.
C15_Witness ==
    /\ proc["child"].finCaller = "XIOErrorHandler"
    /\ proc["child"].finRuns = 1
    /\ proc["child"].xCloses = 0
    /\ proc["child"].status = "exit_failure"
    /\ ReleasedOnceBy("child")

LoopPcs == {"l265", "l267", "l273", "l280"}
\* the process has been through fork(): the child, or the parent once it has left
\* with the status of line 261
PastFork(p) ==
    \/ p = "child" /\ proc[p].status # "none"
    \/ p = "parent" /\ proc[p].badSubscribe = FALSE /\ proc[p].d.display = "open"
         /\ proc[p].pc \notin {"l249", "l259"} \cup HandlerPcs

\* C16 (fork ownership transfer): the process in which fork() returned non-zero has
\* exited with success, and has run no cleanup: no run of operationSuspendFinish,
\* no UnInhibit, display and signal fd not closed, connection reference not
\* dropped; the wait loop and, after the fork, the cleanup are only ever run by the
\* child.
C16_ForkOwnership ==
    /\ proc["parent"].pc \notin LoopPcs
    /\ proc["child"].status # "none" => PastFork("parent")
    /\ PastFork("parent")
         => /\ proc["parent"].status = "exit_success"
            /\ proc["parent"].finRuns = 0
            /\ proc["parent"].xCloses = 0
            /\ proc["parent"].d.signalFd = "open"
            /\ proc["parent"].d.dbusConn = "conn"
            /\ proc["parent"].handlers
            /\ \A i \in 1..Len(releaseLog) : releaseLog[i].by = "child"
            /\ \A i \in 1..Len(UnInhibits) : UnInhibits[i].by = "child"

\* C16 witness: the parent has left with success, nothing closed, and the child,
\* after the window's destruction, has run the cleanup.
C16_Witness ==
    /\ PastFork("parent")
    /\ proc["parent"].status = "exit_success"
    /\ proc["parent"].d.display = "open"
    /\ proc["child"].cause = "destroyed"
    /\ proc["child"].finRuns = 1
    /\ proc["child"].d.display = "closed"
    /\ Exited("child")

\* operationSuspend left through one of the cleanReturn(false) of lines 189-238:
\* the signal fd exists, the X handlers were never installed
AcquireFailed(p) ==
    /\ proc[p].cause = "setup"
    /\ proc[p].d.signalFd # "-1"
    /\ ~proc[p].handlers
\* the un-inhibit step of the cleanup is over in p
PastUnInhibit(p) == proc[p].pc \in {"fin129", "fin143", "fin147", "fin149", "exited"}

\* C17 (acquire failure path): when the inhibit request fails, operationSuspend is
\* in the cleanup called from cleanReturn and ends in failure; no handlers were
\* installed, no display opened, no child forked, no loop entered; and the
\* un-inhibit step is run exactly when a cookie had been read from the reply, which
\* is when the reply began with a UINT32 (and, this being a failure, had further
\* values); its UnInhibit call goes out unless building the message failed.
C17_AcquireFailure ==
    \A p \in Procs :
        AcquireFailed(p)
            => /\ p = "parent"
               /\ proc["child"].status = "none"
               /\ proc[p].pc \in (FinishPcs \ HandlerPcs) \cup {"exited"}
               /\ proc[p].finCaller = "operationSuspend"
               /\ ~proc[p].returnValue
               /\ proc[p].d.display = NULL
               /\ proc[p].xCloses = 0
               /\ ~subscribed
               /\ Exited(p) => proc[p].status = "exit_failure"
               /\ proc[p].d.screenSaverInhibited
                    <=> /\ ArgType(proc[p].d.inhibitReplyMsg, 1) = "UINT32"
                        /\ ArgType(proc[p].d.inhibitReplyMsg, 2) # "INVALID"
               /\ PastUnInhibit(p)
                    => /\ proc[p].d.screenSaverInhibited => ReleasedOnceBy(p)
                       /\ ~proc[p].d.screenSaverInhibited
                            => (releaseLog = <<>> /\ UnInhibits = <<>>)

\* C17 witness: the reply was a cookie followed by another value; the parent gave
\* the cookie back and ended in failure, with no handlers and no display.
C17_Witness ==
    /\ AcquireFailed("parent")
    /\ proc["parent"].d.inhibitReplyMsg = Msg(<<U32(1), U32(0)>>)
    /\ UnInhibits = <<[method |-> "UnInhibit", by |-> "parent", cookie |-> 1]>>
    /\ proc["parent"].status = "exit_failure"

\* C18 (foreground success means a live session), as claimed: when the invoking
\* process has left with success at the fork, a child exists - it holds the cookie
\* and, until it has run its own cleanup, the display and the signal fd - whatever
\* fork() returned.
C18_LiveSession ==
    (PastFork("parent") /\ proc["parent"].status = "exit_success")
        => /\ proc["child"].status # "none"
           /\ proc["child"].d.screenSaverInhibited
           /\ proc["child"].d.screenSaverInhibitCookie
                = proc["parent"].d.screenSaverInhibitCookie
           /\ InLoop("child")
                => (proc["child"].d.display = "open"
                      /\ proc["child"].d.signalFd = "open")

\* C19 (resume is never lost), as claimed, for a SIGTERM sent during the set-up: once
\* it is pending in the invoking process, whose signals are blocked, the run comes
\* to its end - no process of it is left waiting with the cookie - without the
\* help of anything sent later (an X event, a signal to the child).
C19_ResumeNotLost ==
    ("SIGTERM" \in proc["parent"].pending)
        ~> \/ \A q \in Procs : ~Running(q)
           \/ xsock # <<>>
           \/ proc["child"].pending # {}

\* p has a cookie and its un-inhibit step has not been run yet
HoldsCookie(p) ==
    /\ Running(p)
    /\ proc[p].d.screenSaverInhibited
    /\ ~PastUnInhibit(p)

\* C20 (signals gated while the cookie is held): a process that holds a cookie not
\* yet released has the five signals blocked and its signal fd open, a signal sent
\* to it stays pending, and no process that ever got a cookie is ended by a signal.
C20_SignalsGated ==
    \A p \in Procs :
        /\ HoldsCookie(p)
             => /\ proc[p].blocked
                /\ proc[p].d.signalFd = "open"
                /\ proc[p].pending \subseteq EXIT_SIGNALS
        /\ proc[p].d.screenSaverInhibited => proc[p].status # "killed"

\* C20 witness: the child, waiting with the cookie, was sent SIGQUIT, which is
\* pending and has not ended it.
C20_Witness ==
    /\ HoldsCookie("child")
    /\ At("child", "l273")
    /\ proc["child"].pending = {"SIGQUIT"}
    /\ releaseLog = <<>>

----------------------------------------------------------------------------
(* Properties of the resume scan *)

\* the arguments of a NUL-terminated blob: the bytes between its NULs
Args(buf) ==
    LET nul == {i \in 1..Len(buf) : buf[i] = NUL}
        pos(k) == CHOOSE i \in nul : Cardinality({j \in nul : j < i}) = k - 1
        from(k) == IF k = 1 THEN 1 ELSE pos(k - 1) + 1
    IN [k \in 1..Cardinality(nul) |-> SubSeq(buf, from(k), pos(k) - 1)]

\* t is a non-empty numeric literal, consumed to its end, with the value w
NumericFor(t, w) == t # <<>> /\ strtoul(t).end = Len(t) /\ strtoul(t).val = w

\* exactly [argv0, "suspend", <w>]
ExactMatch(buf, w) ==
    /\ Len(Args(buf)) = 3
    /\ Args(buf)[2] = suspendStr
    /\ NumericFor(Args(buf)[3], w)

\* C4 (invariant I3), as claimed: SIGTERM is sent to a process only if its executable
\* link equals the scan's own, argv[1] is "suspend", argv[2] is numerically the
\* window, and it has exactly three arguments.
C4_IdentityTuple ==
    rs.signalled
        => /\ rs.exeLink = rs.selfExeLink
           /\ ExactMatch(rs.cmdline, rs.window)

\* C5 (match precision): for every NUL-terminated blob, checkAndResumeProcess comes
\* to the kill exactly when the blob is the three arguments [any argv0, "suspend", t]
\* with t a non-empty, fully consumed numeric literal equal to the window; for every
\* other blob it returns success, with no signal sent and no error.
C5_MatchPrecision ==
    /\ rs.pc = "m380" => ValidCmdline(rs.cmdline)
    /\ (rs.pc = "m404" \/ rs.stage = "kill" \/ rs.signalled)
         => ExactMatch(rs.cmdline, rs.window)
    /\ rs.stage = "args"
         => /\ ~ExactMatch(rs.cmdline, rs.window)
            /\ rs.mret
            /\ ~rs.signalled

\* C5 witness: a blob with the window in hexadecimal has come to the kill, for a
\* scan given the window in octal.
C5_Witness ==
    /\ rs.pc = "m404"
    /\ rs.window = 8
    /\ rs.cmdline = Blob(<<<<"p">>, suspendStr, <<"0", "x", "8">>>>)

\* C6 (race tolerance), as claimed: when the process goes away before the readlink,
\* before the open, or between the open and the read, the check returns success
\* (unless a failure of another kind is met) and sends no signal, and it does not
\* make the scan's result failure.
C6_RaceTolerance ==
    /\ (rs.pc = "m411" /\ rs.cur.goneAt \in {"m340", "m350", "m360"}
          /\ ~rs.mgenuine)
         => (rs.mret /\ ~rs.signalled)
    /\ (rs.pc = "done" /\ ~rs.genuine) => rs.returnValue

\* C7 (resume never stops early), as claimed: once /proc is open every entry is
\* checked, and the result is failure exactly when some entry met a genuine
\* (non-race) error.
C7_NeverStopsEarly ==
    (rs.pc = "done" /\ rs.opened)
        => /\ rs.calls = rs.nEntries
           /\ ~rs.returnValue <=> rs.genuine

\* every entry is checked, and the result is failure exactly when a check failed
ScanResult ==
    (rs.pc = "done" /\ rs.opened)
        => /\ rs.calls = rs.nEntries
           /\ ~rs.returnValue <=> (rs.genuine \/ rs.raceErr)

\* line 438, isdigit on every character of the name
AllDigits(name) == \A i \in 1..Len(name) : DigitVal(name[i]) < 10

\* C12 (numeric entries only), as claimed: checkAndResumeProcess is only ever at
\* work on an entry whose name consists of digits.
C12_NumericOnly ==
    rs.pc \in {"m340", "m350", "m360", "m380", "m404", "m411"}
        => AllDigits(rs.cur.name)

====
